---------------------------- MODULE Spec2Model ----------------------------
(***************************************************************************)
(* MeManga: multi-source chapter reconciliation (memanga/downloader.py,    *)
(* check_for_updates), the state store (memanga/state.py, class State),    *)
(* the chapter model (memanga/scrapers/base.py, class Chapter) and the     *)
(* per-chapter loop of cmd_check (memanga/cli.py).                         *)
(*                                                                         *)
(* Chapter labels are Python strings; they are modelled as sequences of    *)
(* one-character strings so that float(), the regular expression of        *)
(* Chapter.numeric, str.isdigit() and string comparison are computed the   *)
(* way the code computes them.  Floats are decimals with at most two       *)
(* fractional digits, held as integers scaled by Scale.                    *)
(***************************************************************************)
EXTENDS Integers, Sequences, FiniteSets, TLC

(***************************************************************************)
(* Bounds of the model.                                                    *)
(***************************************************************************)
\* Last value of the clock (in ticks of 1/TicksPerDay day).
MaxTime == 3
\* Last value of the clock in the runs of direct store calls.
MaxStoreTime == 2
\* Most entries of check_history in the runs of direct store calls.
MaxChecks == 1

\* Ticks of the model clock per day (timedelta.days floors to whole days).
TicksPerDay == 2
\* Fixed-point scale of the modelled floats (two fractional digits).
Scale == 100

(***************************************************************************)
(* Characters and strings.                                                 *)
(***************************************************************************)
Digits == {"0", "1", "2", "3", "4", "5", "6", "7", "8", "9"}

\* ord(c) for the characters the labels of this model use.
Ord(c) ==
    CASE c = " " -> 32
      [] c = "." -> 46
      [] c = "0" -> 48 [] c = "1" -> 49 [] c = "2" -> 50 [] c = "3" -> 51
      [] c = "4" -> 52 [] c = "5" -> 53 [] c = "6" -> 54 [] c = "7" -> 55
      [] c = "8" -> 56 [] c = "9" -> 57
      [] c = "E" -> 69 [] c = "P" -> 80
      [] c = "a" -> 97 [] c = "r" -> 114 [] c = "t" -> 116 [] c = "x" -> 120

DigitVal(c) == Ord(c) - 48

\* str < str: lexicographic comparison by code point.
RECURSIVE StrLt(_, _)
StrLt(a, b) ==
    IF b = <<>> THEN FALSE
    ELSE IF a = <<>> THEN TRUE
    ELSE IF Head(a) # Head(b) THEN Ord(Head(a)) < Ord(Head(b))
    ELSE StrLt(Tail(a), Tail(b))

\* str.strip() for the one whitespace character of the model.
RECURSIVE LStrip(_)
LStrip(s) == IF s # <<>> /\ Head(s) = " " THEN LStrip(Tail(s)) ELSE s

RECURSIVE RStrip(_)
RStrip(s) ==
    IF s # <<>> /\ s[Len(s)] = " " THEN RStrip(SubSeq(s, 1, Len(s) - 1)) ELSE s

Strip(s) == RStrip(LStrip(s))

\* str.isdigit(): non-empty and every character a digit.
IsDigitStr(s) == s # <<>> /\ \A i \in 1..Len(s) : s[i] \in Digits

\* str.replace('.', '')
RemoveDots(s) == SelectSeq(s, LAMBDA c : c # ".")

\* Value of a string of digits ("" is 0).
RECURSIVE DigitsValue(_)
DigitsValue(s) ==
    IF s = <<>> THEN 0
    ELSE DigitsValue(SubSeq(s, 1, Len(s) - 1)) * 10 + DigitVal(s[Len(s)])

\* Index of the first "." of s, or 0.
DotIndex(s) ==
    IF \E i \in 1..Len(s) : s[i] = "."
    THEN CHOOSE i \in 1..Len(s) : s[i] = "." /\ \A j \in 1..(i - 1) : s[j] # "."
    ELSE 0

\* A decimal literal of float(): digits with at most one ".", at least one digit.
IsDecimal(t) ==
    /\ t # <<>>
    /\ \A i \in 1..Len(t) : t[i] \in Digits \cup {"."}
    /\ Cardinality({i \in 1..Len(t) : t[i] = "."}) <= 1
    /\ \E i \in 1..Len(t) : t[i] \in Digits

\* The value of a decimal literal, scaled by Scale.
DecimalValue(t) ==
    LET d    == DotIndex(t)
        ip   == IF d = 0 THEN t ELSE SubSeq(t, 1, d - 1)
        fp   == IF d = 0 THEN <<>> ELSE SubSeq(t, d + 1, Len(t))
        fp2  == SubSeq(fp \o <<"0", "0">>, 1, 2)
    IN  DigitsValue(ip) * Scale + DigitsValue(fp2)

\* float(s) succeeds (no ValueError).
FloatOk(s) == IsDecimal(Strip(s))

\* float(s), scaled by Scale, where FloatOk(s).
FloatVal(s) == DecimalValue(Strip(s))

\* re.search(r'(\d+\.?\d*)', s): the first match, or <<>> when there is none.
ReSearchNumber(s) ==
    IF ~ \E i \in 1..Len(s) : s[i] \in Digits THEN <<>>
    ELSE
      LET i0 == CHOOSE i \in 1..Len(s) :
                    s[i] \in Digits /\ \A j \in 1..(i - 1) : s[j] \notin Digits
          RunEnd(k) == CHOOSE e \in (k - 1)..Len(s) :
                          /\ \A j \in k..e : s[j] \in Digits
                          /\ (e = Len(s) \/ s[e + 1] \notin Digits)
          e1 == RunEnd(i0)
          e2 == IF e1 < Len(s) /\ s[e1 + 1] = "." THEN RunEnd(e1 + 2) ELSE e1
      IN  SubSeq(s, i0, e2)

(***************************************************************************)
(* The chapter numbers (labels) of the model.                              *)
(***************************************************************************)
L1    == <<"1">>
L2    == <<"2">>
L3    == <<"3">>
L10   == <<"1", "0">>
L10P1 == <<"1", "0", " ", "P", "a", "r", "t", " ", "1">>
L1x2x3 == <<"1", ".", "2", ".", "3">>
LExtra == <<"E", "x", "t", "r", "a">>

\* The labels the sources of the engine runs list.
EngineLabels == {L2, L10, L10P1}

\* The labels the direct store calls are given.
StoreLabels == {L3, L2, L1x2x3}

AllLabels == EngineLabels \cup StoreLabels \cup {LExtra}

(***************************************************************************)
(* Chapter model (memanga/scrapers/base.py).                               *)
(***************************************************************************)
\* Chapter.numeric
numeric(number) ==
    IF FloatOk(number) THEN FloatVal(number)
    ELSE LET m == ReSearchNumber(number)
         IN  IF m # <<>> THEN FloatVal(m) ELSE 0

\* Chapter.__lt__ on the chapters' numbers.
lt(a, b) ==
    IF FloatOk(a) /\ FloatOk(b) THEN FloatVal(a) < FloatVal(b) ELSE StrLt(a, b)

\* The values of numeric, float() and __lt__ on the labels of the model,
\* computed once.
numericOf == [l \in AllLabels |-> numeric(l)]
FloatOkOf == [l \in AllLabels |-> FloatOk(l)]
FloatValOf == [l \in AllLabels |-> IF FloatOk(l) THEN FloatVal(l) ELSE 0]
ltOf == [a \in AllLabels |-> [b \in AllLabels |-> lt(a, b)]]

(***************************************************************************)
(* sorted() of a list of fewer than 64 Chapters (CPython list.sort: one    *)
(* count_run, then binary insertion), comparing with Chapter.__lt__.       *)
(* The sequences sorted here hold records with a field number.             *)
(***************************************************************************)
\* F applied to the value of v, v evaluated once (a local variable holding v).
Bind(v, F(_)) == CHOOSE y \in {F(x) : x \in {v}} : TRUE

Reverse(s) == [i \in 1..Len(s) |-> s[Len(s) + 1 - i]]

\* count_run: length of the run that starts the list, n of it known.
RECURSIVE RunLen(_, _, _)
RunLen(s, n, desc) ==
    IF n = Len(s) THEN n
    ELSE IF ltOf[s[n + 1].number][s[n].number] = desc THEN RunLen(s, n + 1, desc)
    ELSE n

\* binarysort's search: the slot of pivot among s[1..r], from l (0-based bounds).
RECURSIVE BinSlot(_, _, _, _)
BinSlot(s, pivot, l, r) ==
    IF l >= r THEN l
    ELSE LET p == l + ((r - l) \div 2)
         IN  IF ltOf[pivot.number][s[p + 1].number] THEN BinSlot(s, pivot, l, p)
             ELSE BinSlot(s, pivot, p + 1, r)

\* binarysort: s[1..start-1] is the sorted prefix, insert the rest one by one.
RECURSIVE BinarySort(_, _)
BinarySort(s, start) ==
    IF start > Len(s) THEN s
    ELSE LET pivot == s[start]
         IN  Bind(BinSlot(s, pivot, 0, start - 1), LAMBDA l :
             Bind(SubSeq(s, 1, l) \o <<pivot>> \o SubSeq(s, l + 1, start - 1)
                      \o SubSeq(s, start + 1, Len(s)),
                  LAMBDA moved : BinarySort(moved, start + 1)))

\* sorted(chapters)
sorted(s) ==
    IF Len(s) < 2 THEN s
    ELSE LET desc == ltOf[s[2].number][s[1].number]
         IN  Bind(RunLen(s, 2, desc), LAMBDA n :
             Bind((IF desc THEN Reverse(SubSeq(s, 1, n)) ELSE SubSeq(s, 1, n))
                      \o SubSeq(s, n + 1, Len(s)),
                  LAMBDA s1 : BinarySort(s1, n + 1)))

(***************************************************************************)
(* State store (memanga/state.py).  The store is the dict State._data:     *)
(*   manga          title -> entry                                         *)
(*   last_check     time of the last check, or None                        *)
(*   check_history  list of entries                                        *)
(* and an entry holds downloaded (list of labels), last_chapter and        *)
(* pending_backup (label -> first_seen, backup_source, backup_url).  The   *)
(* fields last_updated and created are written and never read by the code  *)
(* modelled here; they are left out.  first_seen is the clock value whose  *)
(* isoformat() the code stores and parses back.                            *)
(***************************************************************************)
None == <<"None">>
\* None where a time is expected (last_check).
NoTime == -1

EmptyMap == [x \in {} |-> x]

\* State._default_state
default_state == [manga |-> EmptyMap, last_check |-> NoTime, check_history |-> <<>>]

\* The entry State._ensure_manga_entry creates.
NewEntry == [downloaded |-> <<>>, last_chapter |-> None, pending_backup |-> EmptyMap]

\* f with key k bound to v (dict item assignment).
Put(f, k, v) == [x \in (DOMAIN f) \cup {k} |-> IF x = k THEN v ELSE f[x]]

\* f without key k (del dict[k]).
Del(f, k) == [x \in (DOMAIN f) \ {k} |-> f[x]]

\* State._ensure_manga_entry
ensure_manga_entry(d, t) ==
    IF t \in DOMAIN d.manga THEN d
    ELSE [d EXCEPT !.manga = Put(d.manga, t, NewEntry)]

\* State.get_manga_state: the entry, or {} read through .get() defaults.
get_manga_state(d, t) ==
    IF t \in DOMAIN d.manga THEN d.manga[t] ELSE NewEntry

\* State.get_last_chapter
get_last_chapter(d, t) == get_manga_state(d, t).last_chapter

\* State.get_downloaded_chapters
get_downloaded_chapters(d, t) == get_manga_state(d, t).downloaded

\* State.is_chapter_downloaded
is_chapter_downloaded(d, t, ch) ==
    \E i \in 1..Len(get_downloaded_chapters(d, t)) :
        get_downloaded_chapters(d, t)[i] = ch

\* State.get_all_pending_backups
get_all_pending_backups(d, t) == get_manga_state(d, t).pending_backup

\* State.get_pending_backup: an Optional, here {} for None and {entry}.
get_pending_backup(d, t, ch) ==
    IF ch \in DOMAIN get_all_pending_backups(d, t)
    THEN {get_all_pending_backups(d, t)[ch]}
    ELSE {}

\* The sort key of add_downloaded_chapter raises ValueError on x.
SortKeyRaises(x) == IsDigitStr(RemoveDots(x)) /\ ~ FloatOk(x)

\* lambda x: float(x) if x.replace('.', '').isdigit() else 0
SortKey(x) == IF IsDigitStr(RemoveDots(x)) THEN FloatVal(x) ELSE 0

SortKeyOf == [l \in AllLabels |-> IF SortKeyRaises(l) THEN 0 ELSE SortKey(l)]
SortKeyRaisesOf == [l \in AllLabels |-> SortKeyRaises(l)]

\* list.sort(key=SortKey): stable, so an element goes after the equal keys
\* that precede it.
RECURSIVE StableSort(_)
StableSort(s) ==
    IF Len(s) < 2 THEN s
    ELSE Bind(StableSort(SubSeq(s, 1, Len(s) - 1)), LAMBDA front :
         LET x   == s[Len(s)]
             pos == Cardinality({i \in 1..Len(front) : SortKeyOf[front[i]] <= SortKeyOf[x]})
         IN  SubSeq(front, 1, pos) \o <<x>> \o SubSeq(front, pos + 1, Len(front)))

SeqHas(s, x) == \E i \in 1..Len(s) : s[i] = x

(***************************************************************************)
(* The mutating operations.  Each yields the new _data, whether save() was *)
(* called, and whether the call raised before reaching it.                 *)
(***************************************************************************)
Outcome(d, saved, raised) == [data |-> d, saved |-> saved, raised |-> raised]

\* State.set_last_chapter
set_last_chapter(d, t, ch) ==
    Bind(ensure_manga_entry(d, t), LAMBDA d1 :
         Outcome([d1 EXCEPT !.manga[t].last_chapter = ch], TRUE, FALSE))

\* State.add_downloaded_chapter
add_downloaded_chapter(d, t, ch) ==
    Bind(ensure_manga_entry(d, t), LAMBDA d1 :
    Bind(Append(d1.manga[t].downloaded, ch), LAMBDA app :
         IF SeqHas(d1.manga[t].downloaded, ch)
         THEN Outcome([d1 EXCEPT !.manga[t].last_chapter = ch], TRUE, FALSE)
         ELSE IF \E i \in 1..Len(app) : SortKeyRaisesOf[app[i]]
         THEN Outcome([d1 EXCEPT !.manga[t].downloaded = app], FALSE, TRUE)
         ELSE Outcome([d1 EXCEPT !.manga[t].downloaded = StableSort(app),
                                 !.manga[t].last_chapter = ch], TRUE, FALSE)))

\* set_pending_backup without its "not already pending" test.
set_pending_backup_overwrite(d, t, ch, backup_source, backup_url, clock) ==
    Bind(ensure_manga_entry(d, t), LAMBDA d1 :
         Outcome([d1 EXCEPT !.manga[t].pending_backup =
                      Put(@, ch, [first_seen    |-> clock,
                                  backup_source |-> backup_source,
                                  backup_url    |-> backup_url])],
                 TRUE, FALSE))

\* set_pending_backup that also moves last_chapter to the label it is given.
set_pending_backup_moving_last(d, t, ch, backup_source, backup_url, clock) ==
    Bind(ensure_manga_entry(d, t), LAMBDA d1 :
         IF ch \in DOMAIN d1.manga[t].pending_backup
         THEN Outcome(d1, FALSE, FALSE)
         ELSE Outcome([d1 EXCEPT !.manga[t].last_chapter = ch,
                                 !.manga[t].pending_backup =
                          Put(@, ch, [first_seen    |-> clock,
                                      backup_source |-> backup_source,
                                      backup_url    |-> backup_url])],
                      TRUE, FALSE))

\* State.set_pending_backup
set_pending_backup(d, t, ch, backup_source, backup_url, clock) ==
    Bind(ensure_manga_entry(d, t), LAMBDA d1 :
         IF ch \in DOMAIN d1.manga[t].pending_backup
         THEN Outcome(d1, FALSE, FALSE)
         ELSE Outcome([d1 EXCEPT !.manga[t].pending_backup =
                          Put(@, ch, [first_seen    |-> clock,
                                      backup_source |-> backup_source,
                                      backup_url    |-> backup_url])],
                      TRUE, FALSE))

\* clear_pending_backup deleting the series' entry in place of the label's.
clear_pending_backup_whole_entry(d, t, ch) ==
    IF ch \in DOMAIN get_all_pending_backups(d, t)
    THEN Outcome([d EXCEPT !.manga = Del(@, t)], TRUE, FALSE)
    ELSE Outcome(d, FALSE, FALSE)

\* State.clear_pending_backup
clear_pending_backup(d, t, ch) ==
    IF ch \in DOMAIN get_all_pending_backups(d, t)
    THEN Outcome([d EXCEPT !.manga[t].pending_backup = Del(@, ch)], TRUE, FALSE)
    ELSE Outcome(d, FALSE, FALSE)

\* State.clear_all_pending_backups
clear_all_pending_backups(d, t) ==
    IF t \in DOMAIN d.manga
    THEN Outcome([d EXCEPT !.manga[t].pending_backup = EmptyMap], TRUE, FALSE)
    ELSE Outcome(d, FALSE, FALSE)

\* State.remove_manga
remove_manga(d, t) ==
    IF t \in DOMAIN d.manga
    THEN Outcome([d EXCEPT !.manga = Del(@, t)], TRUE, FALSE)
    ELSE Outcome(d, FALSE, FALSE)

\* State.clear_all
clear_all(d) == Outcome(default_state, TRUE, FALSE)

\* Entries of check_history that update_last_check keeps.
HistoryKept == 50

\* s[:n]: the oldest entries instead of the newest.
FirstN(s, n) == IF Len(s) <= n THEN s ELSE SubSeq(s, 1, n)

\* s[-n:]
LastN(s, n) == IF Len(s) <= n THEN s ELSE SubSeq(s, Len(s) - n + 1, Len(s))

\* State.update_last_check
update_last_check(d, new_chapters, downloaded, clock) ==
    Outcome([d EXCEPT !.last_check = clock,
                      !.check_history =
                          LastN(Append(@, [timestamp    |-> clock,
                                           new_chapters |-> new_chapters,
                                           downloaded   |-> downloaded]),
                                HistoryKept)],
            TRUE, FALSE)

(***************************************************************************)
(* Reconciliation (memanga/downloader.py).                                 *)
(*                                                                         *)
(* A series configuration is [title, sources, fallback_delay_days], its    *)
(* sources already in the shape _get_sources_from_manga returns.  What the *)
(* scrapers answer in one run is a sequence with, per source, whether      *)
(* get_scraper/get_chapters returned and the list of chapter numbers it    *)
(* returned.  A Chapter is its number and the source whose listing it came *)
(* from (its url).                                                         *)
(***************************************************************************)
\* DEFAULT_FALLBACK_DELAY_DAYS
DEFAULT_FALLBACK_DELAY_DAYS == 2

\* (now - first_seen).days
DaysBetween(clock, first_seen) == (clock - first_seen) \div TicksPerDay

\* ChapterWithSource(ch, source, source_url, is_backup)
ChapterWithSource(number, from, source, is_backup) ==
    [number |-> number, url |-> from, source |-> source, is_backup |-> is_backup]

\* last_num = float(last_chapter) if last_chapter else 0.0; raises ValueError
\* when last_chapter is a non-empty string float() rejects.
LastNumRaises(d, t) ==
    LET last_chapter == get_last_chapter(d, t)
    IN  last_chapter # None /\ last_chapter # <<>> /\ ~ FloatOkOf[last_chapter]

last_num(d, t) ==
    LET last_chapter == get_last_chapter(d, t)
    IN  IF last_chapter # None /\ last_chapter # <<>> THEN FloatValOf[last_chapter] ELSE 0

\* new_chapters filtered by the threshold alone.
new_chapters_threshold_only(d, t, all_chapters) ==
    LET threshold == last_num(d, t)
    IN  SelectSeq(all_chapters, LAMBDA ch : numericOf[ch] > threshold)

\* A filter that keeps the chapters at the threshold as well as above it.
new_chapters_from_threshold(d, t, all_chapters) ==
    LET threshold == last_num(d, t)
    IN  SelectSeq(all_chapters,
                  LAMBDA ch : numericOf[ch] >= threshold /\ ~ is_chapter_downloaded(d, t, ch))

\* The filter of one source's listing: new_chapters.
new_chapters(d, t, all_chapters) ==
    LET threshold == last_num(d, t)
    IN  SelectSeq(all_chapters,
                  LAMBDA ch : numericOf[ch] > threshold /\ ~ is_chapter_downloaded(d, t, ch))

\* The listing of source i after the try/except: nothing when it failed.
ListedNew(d, t, listings, i) ==
    IF listings[i].ok THEN new_chapters(d, t, listings[i].chapters) ELSE <<>>

\* primary_chapters: the keys of the dict, in insertion order.
RECURSIVE DictKeys(_, _)
DictKeys(chs, acc) ==
    IF chs = <<>> THEN acc
    ELSE Bind(IF SeqHas(acc, Head(chs)) THEN acc ELSE Append(acc, Head(chs)),
              LAMBDA acc1 : DictKeys(Tail(chs), acc1))

primary_chapters(d, t, listings) == DictKeys(ListedNew(d, t, listings, 1), <<>>)

\* A source loop that tracks a backup's chapter even when the primary has it.
RECURSIVE BackupScanAll(_, _, _, _, _)
BackupScanAll(d, t, listings, i, acc) ==
    IF i > Len(listings) THEN acc
    ELSE Bind(ListedNew(d, t, listings, i), LAMBDA mine :
         Bind(DictKeys(mine, acc.keys), LAMBDA keys :
         Bind([keys |-> keys,
               src  |-> [ch \in {keys[k] : k \in 1..Len(keys)} |->
                            IF SeqHas(mine, ch) THEN i ELSE acc.src[ch]]],
              LAMBDA acc1 : BackupScanAll(d, t, listings, i + 1, acc1))))

\* backup_chapters: keys in insertion order and, per key, the source of the
\* last assignment backup_chapters[ch_num] = (ch, source, url).
RECURSIVE BackupScan(_, _, _, _, _)
BackupScan(d, t, listings, i, acc) ==
    IF i > Len(listings) THEN acc
    ELSE Bind(primary_chapters(d, t, listings), LAMBDA prim :
         Bind(SelectSeq(ListedNew(d, t, listings, i), LAMBDA ch : ~ SeqHas(prim, ch)),
              LAMBDA mine :
         Bind(DictKeys(mine, acc.keys), LAMBDA keys :
         Bind([keys |-> keys,
               src  |-> [ch \in {keys[k] : k \in 1..Len(keys)} |->
                            IF SeqHas(mine, ch) THEN i ELSE acc.src[ch]]],
              LAMBDA acc1 : BackupScan(d, t, listings, i + 1, acc1)))))

\* A source loop that a failed primary ends (break in place of continue).
backup_chapters_primary_required(d, t, listings) ==
    IF listings[1].ok
    THEN BackupScan(d, t, listings, 2, [keys |-> <<>>, src |-> EmptyMap])
    ELSE [keys |-> <<>>, src |-> EmptyMap]

backup_chapters(d, t, listings) ==
    BackupScan(d, t, listings, 2, [keys |-> <<>>, src |-> EmptyMap])

\* A primary pass that ends by dropping every pending entry of the series.
RECURSIVE ProcessPrimaryDroppingPending(_, _, _, _)
ProcessPrimaryDroppingPending(manga, keys, d, out) ==
    IF keys = <<>>
    THEN [data |-> clear_all_pending_backups(d, manga.title).data, out |-> out]
    ELSE LET ch_num == Head(keys)
             c      == ChapterWithSource(ch_num, 1, manga.sources[1], FALSE)
         IN  Bind(clear_pending_backup(d, manga.title, ch_num).data, LAMBDA d1 :
             Bind(Append(out, c), LAMBDA out1 :
                  ProcessPrimaryDroppingPending(manga, Tail(keys), d1, out1)))

\* "Process primary chapters first": the Decisions and the store after the
\* clear_pending_backup calls.
RECURSIVE ProcessPrimary(_, _, _, _)
ProcessPrimary(manga, keys, d, out) ==
    IF keys = <<>> THEN [data |-> d, out |-> out]
    ELSE LET ch_num == Head(keys)
             c      == ChapterWithSource(ch_num, 1, manga.sources[1], FALSE)
         IN  Bind(clear_pending_backup(d, manga.title, ch_num).data, LAMBDA d1 :
             Bind(Append(out, c), LAMBDA out1 :
                  ProcessPrimary(manga, Tail(keys), d1, out1)))

\* "Process backup chapters".
RECURSIVE ProcessBackup(_, _, _, _, _, _)
ProcessBackup(manga, bk, keys, clock, d, out) ==
    IF keys = <<>> THEN [data |-> d, out |-> out]
    ELSE LET ch_num  == Head(keys)
             i       == bk.src[ch_num]
             pending == get_pending_backup(d, manga.title, ch_num)
             first_seen == (CHOOSE e \in pending : TRUE).first_seen
         IN  IF pending # {}
             THEN IF DaysBetween(clock, first_seen) >= manga.fallback_delay_days
                  THEN Bind(Append(out, ChapterWithSource(ch_num, i, manga.sources[i], TRUE)),
                            LAMBDA out1 :
                                ProcessBackup(manga, bk, Tail(keys), clock, d, out1))
                  ELSE ProcessBackup(manga, bk, Tail(keys), clock, d, out)
             ELSE Bind(set_pending_backup(d, manga.title, ch_num,
                                          manga.sources[i], i, clock).data,
                       LAMBDA d1 : ProcessBackup(manga, bk, Tail(keys), clock, d1, out))

\* check_for_updates(manga, state): how it ended ("ok", "DownloaderError",
\* "ValueError"), the store it leaves, and the list it returns.
check_for_updates(manga, d, listings, clock) ==
    IF manga.sources = <<>>
    THEN [status |-> "DownloaderError", data |-> d, chapters |-> <<>>]
    ELSE IF LastNumRaises(d, manga.title)
    THEN [status |-> "ValueError", data |-> d, chapters |-> <<>>]
    ELSE Bind(primary_chapters(d, manga.title, listings), LAMBDA prim :
         Bind(backup_chapters(d, manga.title, listings), LAMBDA bk :
         Bind(ProcessPrimary(manga, prim, d, <<>>), LAMBDA p :
         Bind(ProcessBackup(manga, bk, bk.keys, clock, p.data, p.out), LAMBDA b :
         Bind(sorted(b.out), LAMBDA chapters :
              [status |-> "ok", data |-> b.data, chapters |-> chapters])))))

(***************************************************************************)
(* Sources and the tracked series of the engine runs.                      *)
(***************************************************************************)
\* The lists without repetition over S: what get_chapters may return.
ListsOver(S) ==
    {s \in UNION {[1..n -> S] : n \in 0..Cardinality(S)} :
        \A i, j \in 1..Len(s) : i # j => s[i] # s[j]}

\* One source's answer: it failed, or it returned a list.
Failed == [ok |-> FALSE, chapters |-> <<>>]
Answers(S) == {Failed} \cup {[ok |-> TRUE, chapters |-> s] : s \in ListsOver(S)}

Title == "m1"

\* The tracked series of cmd_check's manga_list: a primary and one backup,
\* configured with a fallback_delay_days of one day.
Manga ==
    [title |-> Title, sources |-> <<"primary", "backup">>,
     fallback_delay_days |-> 1]

EngineAnswers == Answers(EngineLabels)

(***************************************************************************)
(* State of the model.                                                     *)
(*   mem      State._data of the running process                           *)
(*   disk     content of state.json (NoFile before the first save)         *)
(*   now      the clock, in ticks                                          *)
(*   run      the check_for_updates call of the check in progress: what    *)
(*            the sources listed, how it ended, what it returned, the      *)
(*            labels whose pending entry it removed (with the days each    *)
(*            had waited), and the followed chapter of the previous check  *)
(*            whose download failed                                        *)
(*   todo     chapters of new_chapters the loop of cmd_check has not       *)
(*            finished (its head is the one being processed)               *)
(*   pc       "idle" (no check running), "loop" (before download_chapter), *)
(*            "clear" (between add_downloaded_chapter and                  *)
(*            clear_pending_backup), "done" (the loop is over)             *)
(*   fetched  per label, how many times add_downloaded_chapter was called  *)
(*            for it by the loop (capped at 2)                             *)
(*   retry    a chapter whose download failed since the last run, followed *)
(*            to the next run (any one of them; empty when none)           *)
(*   op       the last direct call of a State method, and how it ended     *)
(***************************************************************************)
VARIABLES mem, disk, now, run, todo, pc, fetched, retry, op

vars == <<mem, disk, now, run, todo, pc, fetched, retry, op>>

NoFile == [file |-> "missing"]
NoRun == [status |-> "none", listed |-> <<>>, chapters |-> <<>>, owed |-> {},
          cleared |-> {}]
NoOp == [name |-> "none"]

Min(a, b) == IF a < b THEN a ELSE b

Init ==
    /\ mem = default_state
    /\ disk = NoFile
    /\ now = 0
    /\ run = NoRun
    /\ todo = <<>>
    /\ pc = "idle"
    /\ fetched = [l \in AllLabels |-> 0]
    /\ retry = {}
    /\ op = NoOp

\* State.save after an operation: the file holds _data when save() ran.
Saved(o) == IF o.saved THEN o.data ELSE disk

\* The file after open(state_path, "w") and before json.dump has written all
\* of it: empty or a prefix of the JSON text.
Torn == [file |-> "torn"]

\* A file holding valid JSON that is not an object (a list, say).
JsonList == [file |-> "list"]

\* _data is a dict (the methods index it and call .get on it).
IsDict(d) == "manga" \in DOMAIN d

\* State._load: what a State constructed on the file starts from
\* (json.load raises JSONDecodeError on an empty or cut-off file).
load(file) == IF file \in {NoFile, Torn} THEN default_state ELSE file

\* What a source listed in a run, as a set (Failed: the listing failed).
ListedSet(a) == IF a.ok THEN {a.chapters[i] : i \in 1..Len(a.chapters)} ELSE {}

(***************************************************************************)
(* Engine actions.                                                         *)
(***************************************************************************)
\* Time passes between two runs.
Tick ==
    /\ pc = "idle"
    /\ now < MaxTime
    /\ now' = now + 1
    /\ UNCHANGED <<mem, disk, run, todo, pc, fetched, retry, op>>

\* What cmd_check holds once the call it made has ended as r.
\* set_pending_backup and clear_pending_backup save each time they change
\* _data, so the file follows _data exactly when the run changed it.
ReconcileResult(r, listings) ==
    /\ pc = "idle"
    /\ mem' = r.data
    /\ disk' = IF r.data # mem THEN r.data ELSE disk
    /\ run' = [status   |-> r.status,
               listed   |-> [i \in 1..Len(listings) |-> ListedSet(listings[i])],
               chapters |-> r.chapters,
               owed     |-> retry,
               cleared  |-> {[number |-> l,
                              waited |-> DaysBetween(now,
                                 get_all_pending_backups(mem, Title)[l].first_seen)] :
                             l \in DOMAIN get_all_pending_backups(mem, Title)
                                 \ DOMAIN get_all_pending_backups(r.data, Title)}]
    /\ todo' = r.chapters
    /\ pc' = IF r.chapters # <<>> THEN "loop" ELSE "done"
    /\ retry' = {}
    /\ UNCHANGED <<now, fetched>>

\* check_for_updates(manga, state) with the sources answering `listings`.
ReconcileCore(listings) ==
    /\ pc = "idle"
    /\ \E r \in {check_for_updates(Manga, mem, listings, now)} :
           ReconcileResult(r, listings)

ReconcileWith(listings) == ReconcileCore(listings) /\ UNCHANGED op

Reconcile ==
    \E a1 \in EngineAnswers, a2 \in EngineAnswers : ReconcileWith(<<a1, a2>>)

\* download_chapter returned: state.add_downloaded_chapter(title, ch.number).
CommitFetch ==
    /\ pc = "loop"
    /\ \E ch \in {Head(todo)}, o \in {add_downloaded_chapter(mem, Title, Head(todo).number)} :
           /\ mem' = o.data
           /\ disk' = Saved(o)
           /\ fetched' = [fetched EXCEPT ![ch.number] = Min(@ + 1, 2)]
           /\ IF o.raised
              THEN pc' = "done" /\ todo' = <<>>
              ELSE pc' = "clear" /\ todo' = todo
    /\ UNCHANGED <<now, run, retry, op>>

\* state.clear_pending_backup(title, ch.number) after the commit.
ClearAfterCommit ==
    /\ pc = "clear"
    /\ \E o \in {clear_pending_backup(mem, Title, Head(todo).number)} :
           mem' = o.data /\ disk' = Saved(o)
    /\ todo' = Tail(todo)
    /\ pc' = IF Tail(todo) = <<>> THEN "done" ELSE "loop"
    /\ UNCHANGED <<now, run, fetched, retry, op>>

\* download_chapter raised DownloaderError (or the user declined): the loop
\* goes on to the next chapter and the store is not touched.
FetchFail ==
    /\ pc = "loop"
    /\ \E follow \in BOOLEAN :
          retry' = IF follow
                   THEN {[number |-> Head(todo).number, url |-> Head(todo).url]}
                   ELSE retry
    /\ todo' = Tail(todo)
    /\ pc' = IF Tail(todo) = <<>> THEN "done" ELSE "loop"
    /\ UNCHANGED <<mem, disk, now, run, fetched, op>>

\* The check is over: its result is dropped.
EndCheck ==
    /\ pc = "done"
    /\ pc' = "idle"
    /\ run' = NoRun
    /\ UNCHANGED <<mem, disk, now, todo, fetched, retry, op>>

Next ==
    \/ Tick
    \/ Reconcile
    \/ CommitFetch
    \/ ClearAfterCommit
    \/ FetchFail
    \/ EndCheck

Spec == Init /\ [][Next]_vars

(***************************************************************************)
(* Vocabulary of the properties.                                           *)
(***************************************************************************)
\* The series' progress in a store.
DownloadedIn(d) ==
    {get_downloaded_chapters(d, Title)[i] : i \in 1..Len(get_downloaded_chapters(d, Title))}
PendingIn(d) == get_all_pending_backups(d, Title)

Downloaded == DownloadedIn(mem)
Pending == PendingIn(mem)

\* The fallback delay of the series, in ticks.
DelayTicks == Manga.fallback_delay_days * TicksPerDay

\* check_for_updates has just returned: the loop has processed nothing yet.
JustRan == run.status # "none" /\ pc \in {"loop", "done"} /\ todo = run.chapters

\* The run in progress emitted label l (as a fallback / from the primary).
Emitted(l) == \E i \in 1..Len(run.chapters) : run.chapters[i].number = l
EmittedFallback(l) ==
    \E i \in 1..Len(run.chapters) :
        run.chapters[i].number = l /\ run.chapters[i].is_backup
EmittedPrimary(l) ==
    \E i \in 1..Len(run.chapters) :
        /\ run.chapters[i].number = l
        /\ ~ run.chapters[i].is_backup
        /\ run.chapters[i].source = Manga.sources[1]

\* The run read a threshold (float(last_chapter) did not raise) below l's key.
AboveThreshold(l) == run.status = "ok" /\ numericOf[l] > last_num(mem, Title)

(***************************************************************************)
(* The checks of a series whose chapter 2 only the backup ever lists: the  *)
(* primary never lists it, every listing of the backup has it, and every   *)
(* emitted chapter is downloaded and recorded.  Checks keep being run and  *)
(* the clock keeps advancing (to the end of the modelled time).            *)
(***************************************************************************)
PrimaryNeverLists == {a \in EngineAnswers : L2 \notin ListedSet(a)}
BackupAlwaysLists == {a \in EngineAnswers : L2 \in ListedSet(a)}

ReconcileBackupOnly ==
    \E a1 \in PrimaryNeverLists, a2 \in BackupAlwaysLists : ReconcileWith(<<a1, a2>>)

NextLive ==
    \/ Tick
    \/ ReconcileBackupOnly
    \/ CommitFetch
    \/ ClearAfterCommit
    \/ EndCheck

SpecLive ==
    /\ Init
    /\ [][NextLive]_vars
    /\ SF_vars(Tick)
    /\ WF_vars(ReconcileBackupOnly)
    /\ WF_vars(CommitFetch)
    /\ WF_vars(ClearAfterCommit)
    /\ WF_vars(EndCheck)

(***************************************************************************)
(* Direct calls of the store's operations (memanga/state.py), in any       *)
(* order: each step is one call of a State method on the single State      *)
(* object, and op records the call and whether it raised.                  *)
(***************************************************************************)
\* The backup sources named in direct set_pending_backup calls.
StoreBackups == {[source |-> "backup", url |-> 2], [source |-> "mirror", url |-> 3]}

\* The labels given pending entries by direct calls.
StorePendingLabels == {L2}

\* The State methods that change _data.
MutatingOps ==
    {"add_downloaded_chapter", "set_pending_backup", "clear_pending_backup",
     "clear_all_pending_backups", "set_last_chapter", "update_last_check",
     "remove_manga", "clear_all"}

\* One call of a State method with outcome o.
StoreCall(o, call) ==
    /\ pc = "idle"
    /\ mem' = o.data
    /\ disk' = Saved(o)
    /\ op' = call
    /\ UNCHANGED <<now, run, todo, pc, fetched, retry>>

StoreTick ==
    /\ now < MaxStoreTime
    /\ now' = now + 1
    /\ UNCHANGED <<mem, disk, run, todo, pc, fetched, retry, op>>

AddDownloadedChapter(ch) ==
    \E o \in {add_downloaded_chapter(mem, Title, ch)} :
        StoreCall(o, [name |-> "add_downloaded_chapter", raised |-> o.raised])

SetPendingBackup(ch, b) ==
    \E o \in {set_pending_backup(mem, Title, ch, b.source, b.url, now)} :
        StoreCall(o, [name |-> "set_pending_backup", raised |-> o.raised,
                      chapter |-> ch, backup |-> b, at |-> now,
                      again |-> ch \in DOMAIN get_all_pending_backups(mem, Title)])

ClearPendingBackup(ch) ==
    \E o \in {clear_pending_backup(mem, Title, ch)} :
        StoreCall(o, [name |-> "clear_pending_backup", raised |-> o.raised])

ClearAllPendingBackups ==
    \E o \in {clear_all_pending_backups(mem, Title)} :
        StoreCall(o, [name |-> "clear_all_pending_backups", raised |-> o.raised])

SetLastChapter(ch) ==
    \E o \in {set_last_chapter(mem, Title, ch)} :
        StoreCall(o, [name |-> "set_last_chapter", raised |-> o.raised])

UpdateLastCheck ==
    /\ Len(mem.check_history) < MaxChecks
    /\ \E o \in {update_last_check(mem, 0, 0, now)} :
           StoreCall(o, [name |-> "update_last_check", raised |-> o.raised])

RemoveManga ==
    \E o \in {remove_manga(mem, Title)} :
        StoreCall(o, [name |-> "remove_manga", raised |-> o.raised])

ClearAll ==
    \E o \in {clear_all(mem)} :
        StoreCall(o, [name |-> "clear_all", raised |-> o.raised])

NextStore ==
    \/ StoreTick
    \/ \E ch \in StoreLabels : AddDownloadedChapter(ch)
    \/ \E ch \in StorePendingLabels, b \in StoreBackups : SetPendingBackup(ch, b)
    \/ \E ch \in StorePendingLabels : ClearPendingBackup(ch)
    \/ ClearAllPendingBackups
    \/ \E ch \in StoreLabels : SetLastChapter(ch)
    \/ UpdateLastCheck
    \/ RemoveManga
    \/ ClearAll

SpecStore == Init /\ [][NextStore]_vars

(***************************************************************************)
(* Store calls of a process that can stop at any point, a save included.   *)
(* save() is open(path, "w"), which empties the file, then json.dump,      *)
(* which writes it; a later process constructs State on what is left.      *)
(* While pc = "saving", op holds the store before the call and the store   *)
(* the call is writing.                                                    *)
(***************************************************************************)
CrashLabels == {L2, L3}

\* A State method runs up to the open() of its save (or returns, if it does
\* not save).
BeginCall(o) ==
    /\ pc = "idle"
    /\ mem' = o.data
    /\ IF o.saved
       THEN /\ disk' = Torn
            /\ pc' = "saving"
            /\ op' = [name |-> "saving", before |-> load(disk), after |-> o.data]
       ELSE /\ UNCHANGED <<disk, pc>>
            /\ op' = [name |-> "returned", before |-> load(disk), after |-> load(disk)]
    /\ UNCHANGED <<now, run, todo, fetched, retry>>

BeginAddDownloadedChapter ==
    \E ch \in CrashLabels :
        \E o \in {add_downloaded_chapter(mem, Title, ch)} : BeginCall(o)

BeginSetPendingBackup ==
    \E ch \in CrashLabels, b \in StoreBackups :
        \E o \in {set_pending_backup(mem, Title, ch, b.source, b.url, now)} : BeginCall(o)

BeginClearPendingBackup ==
    \E ch \in CrashLabels :
        \E o \in {clear_pending_backup(mem, Title, ch)} : BeginCall(o)

\* json.dump wrote the whole of _data and the file was closed.
FinishSave ==
    /\ pc = "saving"
    /\ disk' = mem
    /\ pc' = "idle"
    /\ op' = [name |-> "returned", before |-> mem, after |-> mem]
    /\ UNCHANGED <<mem, now, run, todo, fetched, retry>>

\* The process stops here; a later process runs State.__init__.
StopAndRestart ==
    /\ mem' = load(disk)
    /\ pc' = "idle"
    /\ op' = [name   |-> "restart",
              before |-> IF pc = "saving" THEN op.before ELSE load(disk),
              after  |-> IF pc = "saving" THEN op.after ELSE load(disk)]
    /\ UNCHANGED <<disk, now, run, todo, fetched, retry>>

NextCrash ==
    \/ StoreTick
    \/ BeginAddDownloadedChapter
    \/ BeginSetPendingBackup
    \/ BeginClearPendingBackup
    \/ FinishSave
    \/ StopAndRestart

SpecCrash == Init /\ [][NextCrash]_vars

(***************************************************************************)
(* A State constructed on a file that is missing, not valid JSON, or valid *)
(* JSON of another shape, and the calls made on it afterwards.  On a _data *)
(* that is a list every method but clear_all raises (AttributeError from   *)
(* .get, TypeError from the subscript) before it changes anything.         *)
(***************************************************************************)
StartFiles == {NoFile, Torn, JsonList}

InitLoad ==
    /\ disk \in StartFiles
    /\ mem = load(disk)
    /\ now = 0
    /\ run = NoRun
    /\ todo = <<>>
    /\ pc = "idle"
    /\ fetched = [l \in AllLabels |-> 0]
    /\ retry = {}
    /\ op = [name |-> "__init__", raised |-> FALSE]

\* The method raises on _data and leaves it and the file as they are.
RaiseOnData(name) ==
    /\ pc = "idle"
    /\ op' = [name |-> name, raised |-> TRUE]
    /\ UNCHANGED <<mem, disk, now, run, todo, pc, fetched, retry>>

\* Method `name`, whose step on a dict is Call.
OnData(name, Call) == IF IsDict(mem) THEN Call ELSE RaiseOnData(name)

NextLoad ==
    \/ StoreTick
    \/ \E ch \in CrashLabels :
          OnData("add_downloaded_chapter", AddDownloadedChapter(ch))
    \/ \E ch \in StorePendingLabels, b \in StoreBackups :
          OnData("set_pending_backup", SetPendingBackup(ch, b))
    \/ \E ch \in StorePendingLabels :
          OnData("clear_pending_backup", ClearPendingBackup(ch))
    \/ OnData("clear_all_pending_backups", ClearAllPendingBackups)
    \/ \E ch \in CrashLabels : OnData("set_last_chapter", SetLastChapter(ch))
    \/ OnData("update_last_check", UpdateLastCheck)
    \/ OnData("remove_manga", RemoveManga)
    \/ ClearAll

SpecLoad == InitLoad /\ [][NextLoad]_vars

(***************************************************************************)
(* C1.  At-most-once: a label that has been committed is emitted by no     *)
(* later check_for_updates, so the chapters the loop still has to process  *)
(* are never downloaded ones and no label is committed by two fetches.     *)
(***************************************************************************)
C1_AtMostOnce ==
    /\ \A l \in AllLabels : fetched[l] <= 1
    /\ pc = "loop" => \A i \in 1..Len(todo) : ~ is_chapter_downloaded(mem, Title, todo[i].number)

\* A run that lists a committed label whose key is above the threshold, and
\* emits something else.
C1_Witness ==
    /\ JustRan
    /\ pc = "loop"
    /\ \E l \in Downloaded :
          /\ l \in run.listed[1] \cup run.listed[2]
          /\ AboveThreshold(l)
          /\ fetched[l] = 1

(***************************************************************************)
(* C2.  A chapter that was emitted and whose download failed is emitted    *)
(* again by the next check_for_updates that finds it listed by its source, *)
(* whatever was committed in the meantime.                                 *)
(***************************************************************************)
C2_RetriedWhateverCommitted ==
    \A f \in run.owed : f.number \in run.listed[f.url] => Emitted(f.number)

(***************************************************************************)
(* C3.  Across add_downloaded_chapter calls with labels in any order, the  *)
(* threshold check_for_updates reads from the store never decreases.       *)
(***************************************************************************)
C3_ThresholdNeverDecreases ==
    [][ (\E ch \in StoreLabels : AddDownloadedChapter(ch))
            => \/ LastNumRaises(mem, Title)
               \/ LastNumRaises(mem', Title)
               \/ last_num(mem', Title) >= last_num(mem, Title) ]_vars

(***************************************************************************)
(* C4.  Fallback delay: a chapter the primary does not list, with a        *)
(* pending entry created at T, is emitted by no run before T + delay and   *)
(* by every run from T + delay on (boundary included) in which the backup  *)
(* lists it and it is not downloaded.                                      *)
(***************************************************************************)
C4_DelayHonoured ==
    JustRan =>
        \A l \in DOMAIN Pending :
            l \notin run.listed[1] =>
                /\ now < Pending[l].first_seen + DelayTicks => ~ Emitted(l)
                /\ ( /\ now >= Pending[l].first_seen + DelayTicks
                     /\ l \in run.listed[2]
                     /\ l \notin Downloaded ) => EmittedFallback(l)

\* Label l had a pending entry, younger than the delay, when the run began.
WasPendingEarly(l) ==
    \/ \E c \in run.cleared : c.number = l /\ c.waited < Manga.fallback_delay_days
    \/ /\ l \in DOMAIN Pending
       /\ l \in run.listed[1]
       /\ DaysBetween(now, Pending[l].first_seen) < Manga.fallback_delay_days

(***************************************************************************)
(* C5.  Primary preemption: a chapter with a pending entry that a run      *)
(* finds on the primary before the delay has elapsed is emitted by that    *)
(* run from the primary, not as a fallback, and its pending entry is gone  *)
(* when the run returns.                                                   *)
(***************************************************************************)
C5_PrimaryPreempts ==
    JustRan =>
        \A l \in EngineLabels :
            (WasPendingEarly(l) /\ l \in run.listed[1])
                => (EmittedPrimary(l) /\ l \notin DOMAIN Pending)

(***************************************************************************)
(* C6.  A set_pending_backup call for a label that already has a pending   *)
(* entry leaves the entry's first_seen, backup_source and backup_url as    *)
(* they were, whatever the time of the call and the backup it names.       *)
(***************************************************************************)
C6_PendingStartIdempotent ==
    [][ \A ch \in StorePendingLabels, b \in StoreBackups :
            (SetPendingBackup(ch, b) /\ ch \in DOMAIN PendingIn(mem))
                => /\ ch \in DOMAIN PendingIn(mem')
                   /\ PendingIn(mem')[ch] = PendingIn(mem)[ch] ]_vars

\* A repeated call, later and naming another backup, has returned and the
\* entry still holds the first call's values.
C6_Witness ==
    /\ op.name = "set_pending_backup"
    /\ op.again
    /\ op.chapter \in DOMAIN Pending
    /\ op.at > Pending[op.chapter].first_seen
    /\ op.backup.source # Pending[op.chapter].backup_source
    /\ op.backup.url # Pending[op.chapter].backup_url

(***************************************************************************)
(* C7.  No label of the series is both pending and downloaded, in memory   *)
(* and in the file after any save.                                         *)
(***************************************************************************)
C7_PendingNotDownloaded ==
    /\ DOMAIN PendingIn(mem) \cap DownloadedIn(mem) = {}
    /\ disk # NoFile => DOMAIN PendingIn(disk) \cap DownloadedIn(disk) = {}

(***************************************************************************)
(* C8.  Eventual delivery: a chapter that got a pending entry (it was      *)
(* above the threshold when first seen), that the backup keeps listing and *)
(* the primary never lists, is eventually emitted as a fallback and        *)
(* recorded as downloaded, when checks keep running as time advances and   *)
(* every emitted chapter is downloaded.                                    *)
(***************************************************************************)
C8_EventuallyDelivered ==
    (L2 \in DOMAIN Pending /\ Pending[L2].first_seen + DelayTicks <= MaxTime)
        ~> (L2 \in Downloaded)

(***************************************************************************)
(* C9.  The list check_for_updates returns is sorted ascending by ordinal  *)
(* key (Chapter.numeric).                                                  *)
(***************************************************************************)
C9_SortedByOrdinalKey ==
    \A i, j \in 1..Len(run.chapters) :
        i < j => numericOf[run.chapters[i].number] <= numericOf[run.chapters[j].number]

(***************************************************************************)
(* C10.  Whenever a mutating State operation has returned or raised, the   *)
(* file holds exactly the in-memory _data.                                 *)
(***************************************************************************)
C10_PersistedAfterEveryOperation ==
    op.name \in MutatingOps => load(disk) = mem

(***************************************************************************)
(* C11.  Whenever the process stops, also in the middle of a mutating      *)
(* State operation, the store the next process loads is the store before   *)
(* that operation or the store after it.                                   *)
(***************************************************************************)
C11_CrashLeavesBeforeOrAfter ==
    op.name = "restart" => mem \in {op.before, op.after}

(***************************************************************************)
(* C12.  A State constructed on a file that is missing, not valid JSON or  *)
(* valid JSON of another shape starts as the empty default, and no later   *)
(* store operation raises.                                                 *)
(***************************************************************************)
C12_LoadStartsFromDefault ==
    /\ op.name = "__init__" => mem = default_state
    /\ op.name # "none" => ~ op.raised


(***************************************************************************)
(* The series as the configuration file gives it.  A series has either a  *)
(* "sources" list (entries are mappings, bare url strings, or anything     *)
(* else the file may hold) or the older single "source"/"url" pair; an     *)
(* absent key of a mapping reads as "" through dict.get.                    *)
(***************************************************************************)
\* The sites a scraper is registered for.
SCRAPERS == {"primary", "backup"}

\* get_scraper(source) raises ValueError: no registered domain is in source.
GetScraperRaises(source) == source \notin SCRAPERS

\* _extract_source(url): the domain of the url, "" for a url without one.
extract_source(url) ==
    CASE url = "u1" -> "primary"
      [] url = "u2" -> "backup"
      [] OTHER      -> ""

\* The loop of _get_sources_from_manga over manga["sources"].
RECURSIVE SourcesOf(_)
SourcesOf(entries) ==
    IF entries = <<>> THEN <<>>
    ELSE LET s == Head(entries) IN
         IF s.kind = "dict"
         THEN <<[source |-> IF s.source # "" THEN s.source
                            ELSE extract_source(s.url),
                 url    |-> s.url]>> \o SourcesOf(Tail(entries))
         ELSE IF s.kind = "str"
         THEN <<[source |-> extract_source(s.url), url |-> s.url]>>
                  \o SourcesOf(Tail(entries))
         ELSE SourcesOf(Tail(entries))

get_sources_from_manga(manga) ==
    IF "sources" \in DOMAIN manga
    THEN SourcesOf(manga.sources)
    ELSE <<[source |-> manga.source, url |-> manga.url]>>

\* The series with its sources resolved, as the body of check_for_updates
\* uses it after its first three statements.
Resolved(manga) ==
    [title   |-> manga.title,
     sources |-> [i \in 1..Len(get_sources_from_manga(manga)) |->
                     get_sources_from_manga(manga)[i].source],
     fallback_delay_days |->
         IF "fallback_delay_days" \in DOMAIN manga
         THEN manga.fallback_delay_days
         ELSE DEFAULT_FALLBACK_DELAY_DAYS]

\* What the try block of the source loop yields for each source when the
\* sites answer `answers`: a source without a scraper is skipped like a
\* source whose get_chapters raised.
Listings(manga, answers) ==
    [i \in 1..Len(get_sources_from_manga(manga)) |->
        IF GetScraperRaises(get_sources_from_manga(manga)[i].source)
        THEN Failed
        ELSE answers[i]]

\* check_for_updates(manga, state) on a series of the configuration file.
check_for_updates_config(manga, d, answers, clock) ==
    check_for_updates(Resolved(manga), d, Listings(manga, answers), clock)

(***************************************************************************)
(* SpecRun: checks of one series under every shape its configuration may   *)
(* take, each run remembering the call that was made.                      *)
(***************************************************************************)
RunLabels == {L2, L10}
RunAnswers == Answers(RunLabels)

TwoSources ==
    [title |-> Title,
     sources |-> <<[kind |-> "dict", source |-> "primary", url |-> "u1"],
                   [kind |-> "str", url |-> "u2"]>>,
     fallback_delay_days |-> 1]
EmptySourcesList == [title |-> Title, sources |-> <<>>]
NoMappingInList == [title |-> Title, sources |-> <<[kind |-> "other"]>>]
EmptyMappingInList ==
    [title |-> Title, sources |-> <<[kind |-> "dict", source |-> "", url |-> ""]>>]
SingleSource == [title |-> Title, source |-> "primary", url |-> "u1"]
SingleSourceBlank == [title |-> Title, source |-> "", url |-> ""]

RunConfigs ==
    {TwoSources, EmptySourcesList, NoMappingInList, EmptyMappingInList,
     SingleSource, SingleSourceBlank}

\* The clock of these runs.
MaxRunTime == 2
RunTick ==
    /\ pc = "idle"
    /\ now < MaxRunTime
    /\ now' = now + 1
    /\ UNCHANGED <<mem, disk, run, todo, pc, fetched, retry, op>>

\* cmd_check's call check_for_updates(manga, state) for a series of the
\* file, each of its sources answering in one of the ways of RunAnswers.
RunCheck ==
    /\ pc = "idle"
    /\ \E manga \in RunConfigs :
       \E answers \in [1..Len(get_sources_from_manga(manga)) -> RunAnswers] :
       \E r \in {check_for_updates_config(manga, mem, answers, now)} :
           /\ ReconcileResult(r, Listings(manga, answers))
           /\ op' = [name     |-> "check_for_updates",
                     manga    |-> manga,
                     listings |-> Listings(manga, answers),
                     before   |-> mem,
                     at       |-> now]

\* The check is over: cmd_check drops the list and returns.
EndRun ==
    /\ pc = "done"
    /\ pc' = "idle"
    /\ run' = NoRun
    /\ op' = NoOp
    /\ UNCHANGED <<mem, disk, now, todo, fetched, retry>>

NextRun ==
    \/ RunTick
    \/ RunCheck
    \/ CommitFetch
    \/ ClearAfterCommit
    \/ FetchFail
    \/ EndRun

SpecRun == Init /\ [][NextRun]_vars

\* The listings with every failure replaced by a successful empty list.
AsEmpty(listings) ==
    [i \in 1..Len(listings) |->
        IF listings[i].ok THEN listings[i] ELSE [ok |-> TRUE, chapters |-> <<>>]]

\* C13: a source whose listing fails never aborts the run: the run ends, and
\* returns the Decisions and leaves the store, exactly as it would had that
\* source answered with an empty list.
C13_FailedListingIsEmptyListing ==
    (op.name = "check_for_updates" /\ JustRan) =>
        \E r \in {check_for_updates(Resolved(op.manga), op.before,
                                    AsEmpty(op.listings), op.at)} :
            /\ run.status = r.status
            /\ run.chapters = r.chapters
            /\ mem = r.data

\* A run whose primary failed and that still emitted a chapter of the backup.
C13_Witness ==
    /\ op.name = "check_for_updates"
    /\ JustRan
    /\ Len(op.listings) = 2
    /\ ~ op.listings[1].ok
    /\ op.listings[2].ok
    /\ run.status = "ok"
    /\ run.chapters # <<>>

\* The series names no usable source: an empty sources list, or the single
\* source shape with neither a url nor a source.
NoUsableSource(manga) ==
    IF "sources" \in DOMAIN manga
    THEN manga.sources = <<>>
    ELSE manga.source = "" /\ manga.url = ""

\* C14: a series with no usable source makes check_for_updates raise
\* DownloaderError; it never returns a list of Decisions, empty or not.
C14_NoUsableSourceIsAnError ==
    (op.name = "check_for_updates" /\ JustRan /\ NoUsableSource(op.manga)) =>
        run.status = "DownloaderError"

\* C15: a run in which the listing of every source failed ends in a way the
\* caller can tell from the run in which every source answered and nothing
\* was new: they are not both the empty list of Decisions.
C15_AllFailedIsDistinguishable ==
    (/\ op.name = "check_for_updates"
     /\ JustRan
     /\ op.listings # <<>>
     /\ \A i \in 1..Len(op.listings) : ~ op.listings[i].ok) =>
        \E r \in {check_for_updates(Resolved(op.manga), op.before,
                                    AsEmpty(op.listings), op.at)} :
            <<run.status, run.chapters>> # <<r.status, r.chapters>>

\* The threshold check_for_updates would read from store d: float of the
\* last_chapter, or the fact that reading it raises.
ThresholdOf(d) ==
    IF LastNumRaises(d, Title) THEN [raises |-> TRUE]
    ELSE [raises |-> FALSE, value |-> last_num(d, Title)]

\* C16: add_downloaded_chapter with a label already in the downloaded list
\* changes nothing: the downloaded set, the threshold and the pending map
\* are what they were.
C16_RecommitChangesNothing ==
    [][ \A ch \in StoreLabels :
            (AddDownloadedChapter(ch) /\ is_chapter_downloaded(mem, Title, ch))
                => /\ DownloadedIn(mem') = DownloadedIn(mem)
                   /\ ThresholdOf(mem') = ThresholdOf(mem)
                   /\ PendingIn(mem') = PendingIn(mem) ]_vars

\* C17: after the commit of an emitted label, whatever its form, the
\* threshold the next run reads can be computed, and it is the larger of the
\* previous threshold and the label's ordinal key.
C17_CommitAdvancesThreshold ==
    [][ CommitFetch =>
            /\ ~ LastNumRaises(mem', Title)
            /\ ~ LastNumRaises(mem, Title) =>
                   last_num(mem', Title) =
                       IF numericOf[Head(todo).number] > last_num(mem, Title)
                       THEN numericOf[Head(todo).number]
                       ELSE last_num(mem, Title) ]_vars

(***************************************************************************)
(* SpecCli: the check command.  cmd_check stamps the store, then for each  *)
(* series it does not skip calls check_for_updates with the arguments      *)
(* written at the call site; an exception of the call is caught by the     *)
(* handlers around the series and the command goes on to its summary.      *)
(***************************************************************************)
\* The parameters of check_for_updates (no *args, no **kwargs).
check_for_updates_parameters == <<"manga", "state">>

\* The call site in cmd_check: two positional arguments and one keyword.
cmd_check_positional == 2
cmd_check_keywords == {"from_chapter"}

\* Python binds the arguments before the body runs: a keyword that names no
\* parameter, or one that names a parameter already filled, is a TypeError.
BindRaisesTypeError(parameters, positional, keywords) ==
    \/ positional > Len(parameters)
    \/ \E k \in keywords :
           \A j \in (positional + 1)..Len(parameters) : parameters[j] # k

\* check_for_updates(manga, state, from_chapter=from_chapter) as cmd_check
\* calls it.
call_check_for_updates(manga, d, answers, clock) ==
    IF BindRaisesTypeError(check_for_updates_parameters, cmd_check_positional,
                           cmd_check_keywords)
    THEN [status |-> "TypeError", data |-> d, chapters |-> <<>>]
    ELSE check_for_updates_config(manga, d, answers, clock)

\* What the command line may give: --auto, --from, and the status the
\* configuration records for the series.
CliArgs ==
    [auto : BOOLEAN, from_chapter : {None, <<"5">>},
     status : {"reading", "completed"}]

\* cmd_check up to the chapter loop of a series it does not skip.
CmdCheckSeries(args) ==
    /\ pc = "idle"
    /\ args.status = "reading"
    /\ Len(mem.check_history) < MaxChecks
    /\ \E o \in {update_last_check(mem, 0, 0, now)} :
       \E answers \in [1..Len(get_sources_from_manga(TwoSources)) -> RunAnswers] :
       \E r \in {call_check_for_updates(TwoSources, o.data, answers, now)} :
           ReconcileResult(r, Listings(TwoSources, answers))
    /\ op' = [name |-> "cmd_check", args |-> args]

\* cmd_check for a series that is not being read: "Skipping".
CmdCheckSkip(args) ==
    /\ pc = "idle"
    /\ args.status # "reading"
    /\ Len(mem.check_history) < MaxChecks
    /\ \E o \in {update_last_check(mem, 0, 0, now)} :
           mem' = o.data /\ disk' = Saved(o)
    /\ pc' = "done"
    /\ op' = [name |-> "cmd_check", args |-> args]
    /\ UNCHANGED <<now, run, todo, fetched, retry>>

CmdCheck == \E args \in CliArgs : CmdCheckSeries(args) \/ CmdCheckSkip(args)

\* The chapter loop of cmd_check follows a call that returned a non-empty
\* list; the call written at the call site returns none, so the command
\* goes from the call to its end.
NextCli ==
    \/ Tick
    \/ CmdCheck
    \/ EndRun

SpecCli == Init /\ [][NextCli]_vars

\* C18: a check of a series being read gets the series' Decisions from
\* check_for_updates, and in auto mode every emitted chapter is recorded as
\* downloaded when the command reaches its end, unless its download failed.
C18_CheckRecordsDownloads ==
    (op.name = "cmd_check" /\ op.args.status = "reading" /\ pc = "done") =>
        /\ run.status = "ok"
        /\ op.args.auto =>
               \A i \in 1..Len(run.chapters) :
                   \/ run.chapters[i].number \in Downloaded
                   \/ fetched[run.chapters[i].number] = 0

(***************************************************************************)
(* SpecEngine: the operations the engine performs on the store, in any     *)
(* order: runs of check_for_updates, commits with the clear that follows   *)
(* them, direct set_pending_backup / clear_pending_backup calls, and       *)
(* update_last_check.                                                      *)
(***************************************************************************)
EngineStoreLabels == {L2, L1x2x3}

\* The primary answers over both labels, the backup over the pending one.
EngineRun ==
    \E a1 \in Answers(EngineStoreLabels), a2 \in Answers(StorePendingLabels) :
        ReconcileWith(<<a1, a2>>)

NextEngine ==
    \/ RunTick
    \/ EngineRun
    \/ CommitFetch
    \/ ClearAfterCommit
    \/ EndCheck
    \/ \E ch \in StorePendingLabels, b \in StoreBackups : SetPendingBackup(ch, b)
    \/ \E ch \in StorePendingLabels : ClearPendingBackup(ch)
    \/ UpdateLastCheck

SpecEngine == Init /\ [][NextEngine]_vars

\* C19: under the engine's operations the downloaded list of a series only
\* grows, in the store and in its file, and the series' record, once
\* created, is never deleted.
C19_DownloadedOnlyGrows ==
    [][ /\ DownloadedIn(mem) \subseteq DownloadedIn(mem')
        /\ DownloadedIn(load(disk)) \subseteq DownloadedIn(load(disk'))
        /\ Title \in DOMAIN mem.manga => Title \in DOMAIN mem'.manga
        /\ Title \in DOMAIN load(disk).manga => Title \in DOMAIN load(disk').manga
      ]_vars

\* Two labels are downloaded, a label is pending, and a check was stamped.
C19_Witness ==
    /\ Cardinality(Downloaded) = 2
    /\ DOMAIN Pending # {}
    /\ mem.check_history # <<>>
    /\ load(disk) = mem

(***************************************************************************)
(* _format_chapter_number: the chapter number as it is written into file   *)
(* names.  Its pattern is: start, a run of digits (group 1), whitespace,   *)
(* "Part" or "part", whitespace, a run of digits (group 2), any characters *)
(* (group 3), end.  The match is followed as the regular-expression engine *)
(* follows it: each greedy run takes all it can, and giving characters     *)
(* back never helps here, because what follows a run cannot start with a   *)
(* character of the run.                                                   *)
(***************************************************************************)
\* \s, for the characters these labels use.
Whitespace == {" ", "\t", "\n"}

\* The length of the longest prefix of s made of characters of C.
RECURSIVE SpanLen(_, _)
SpanLen(s, C) ==
    IF s # <<>> /\ Head(s) \in C THEN 1 + SpanLen(Tail(s), C) ELSE 0

\* s[n:]
From(s, n) == SubSeq(s, n + 1, Len(s))

\* [Pp]art at the start of s.
StartsWithPart(s) ==
    /\ Len(s) >= 4
    /\ s[1] \in {"P", "p"}
    /\ s[2] = "a" /\ s[3] = "r" /\ s[4] = "t"

\* Group 3 and the end: "." takes no newline, and $ is the end of the
\* string or the place before a newline that ends it.
RestMatches(s) ==
    \A i \in 1..Len(s) : s[i] = "\n" => i = Len(s)
RestGroup(s) ==
    IF s # <<>> /\ s[Len(s)] = "\n" THEN SubSeq(s, 1, Len(s) - 1) ELSE s

\* str.zfill(2) of a string of digits.
zfill2(s) == IF Len(s) < 2 THEN <<"0">> \o s ELSE s

\* re.match of the pattern: the groups, or no match.
part_match(chapter_num) ==
    LET n1     == SpanLen(chapter_num, Digits)
        after1 == From(chapter_num, n1)
        after2 == From(after1, SpanLen(after1, Whitespace))
        after3 == From(after2, 4)
        after4 == From(after3, SpanLen(after3, Whitespace))
        n2     == SpanLen(after4, Digits)
        after5 == From(after4, n2)
    IN  IF /\ n1 > 0
           /\ StartsWithPart(after2)
           /\ n2 > 0
           /\ RestMatches(after5)
        THEN [matched |-> TRUE,
              main_num |-> SubSeq(chapter_num, 1, n1),
              part_num |-> SubSeq(after4, 1, n2),
              rest     |-> RestGroup(after5)]
        ELSE [matched |-> FALSE]

\* A rewrite that does not pad the part number.
format_chapter_number_unpadded(chapter_num) ==
    LET m == part_match(chapter_num)
    IN  IF m.matched
        THEN m.main_num \o <<".">> \o m.part_num \o m.rest
        ELSE chapter_num

format_chapter_number(chapter_num) ==
    LET m == part_match(chapter_num)
    IN  IF m.matched
        THEN m.main_num \o <<".">> \o zfill2(m.part_num) \o m.rest
        ELSE chapter_num

(***************************************************************************)
(* SpecFormat: _format_chapter_number applied to labels put together from  *)
(* the pieces a chapter number is made of.                                 *)
(***************************************************************************)
WordPart == <<"P", "a", "r", "t">>
WordLower == <<"p", "a", "r", "t">>
WordUpper == <<"P", "A", "R", "T">>

FormatLabels ==
    {lead \o main \o gap1 \o word \o gap2 \o part \o rest :
        lead \in {<<>>, <<" ">>},
        main \in {<<>>, <<"7">>, <<"1", "2">>, <<"2", ".", "5">>},
        gap1 \in {<<>>, <<" ">>, <<" ", "\t">>},
        word \in {<<>>, WordPart, WordLower, WordUpper, <<"P", "a", "r">>},
        gap2 \in {<<>>, <<" ">>},
        part \in {<<>>, <<"1">>, <<"1", "2">>, <<"1", "2", "3">>},
        rest \in {<<>>, <<"x">>, <<"\n">>, <<"\n", "x">>}}

InitFormat ==
    /\ mem = default_state
    /\ disk = NoFile
    /\ now = 0
    /\ run = NoRun
    /\ todo = <<>>
    /\ pc = "idle"
    /\ fetched = [l \in AllLabels |-> 0]
    /\ retry = {}
    /\ \E l \in FormatLabels : op = [name |-> "chapter", number |-> l]

\* download_chapter names the output file of chapter.number.
FormatChapterNumber ==
    /\ op.name = "chapter"
    /\ op' = [name   |-> "_format_chapter_number",
              number |-> op.number,
              result |-> format_chapter_number(op.number)]
    /\ UNCHANGED <<mem, disk, now, run, todo, pc, fetched, retry>>

NextFormat == FormatChapterNumber

SpecFormat == InitFormat /\ [][NextFormat]_vars

\* The label is digits N, one space, "Part", one space, digits M: the
\* places where N ends.
StrictCuts(s) ==
    {i \in 1..Len(s) :
        /\ i + 7 <= Len(s)
        /\ IsDigitStr(SubSeq(s, 1, i))
        /\ SubSeq(s, i + 1, i + 6) = <<" ">> \o WordPart \o <<" ">>
        /\ IsDigitStr(SubSeq(s, i + 7, Len(s)))}

\* M written with at least two digits.
Padded(m) == IF Len(m) = 1 THEN <<"0", m[1]>> ELSE m

LooseCuts(s) ==
    {c \in (1..Len(s)) \X (1..Len(s)) \X (1..Len(s)) \X (1..Len(s)) :
        /\ c[1] <= c[2] /\ c[2] + 4 <= c[3] /\ c[3] < c[4]
        /\ IsDigitStr(SubSeq(s, 1, c[1]))
        /\ \A j \in (c[1] + 1)..c[2] : s[j] \in Whitespace
        /\ SubSeq(s, c[2] + 1, c[2] + 4) \in {WordPart, WordLower}
        /\ \A j \in (c[2] + 5)..c[3] : s[j] \in Whitespace
        /\ IsDigitStr(SubSeq(s, c[3] + 1, c[4]))
        /\ (c[4] = Len(s) \/ s[c[4] + 1] \notin Digits)
        /\ \A j \in (c[4] + 1)..(Len(s) - 1) : s[j] # "\n"}

\* R without the newline that may end it.
Chomp(r) ==
    IF r # <<>> /\ r[Len(r)] = "\n" THEN SubSeq(r, 1, Len(r) - 1) ELSE r

Manga3 ==
    [title |-> Title, sources |-> <<"primary", "backup", "mirror">>,
     fallback_delay_days |-> 1]

MergeAnswers ==
    {Failed} \cup {[ok |-> TRUE, chapters |-> s] :
                      s \in {<<>>, <<L2>>, <<LExtra>>, <<LExtra, L2>>, <<L10>>,
                            <<L2, L10>>}}

MergeCheck ==
    /\ pc = "idle"
    /\ \E a1 \in MergeAnswers, a2 \in MergeAnswers, a3 \in MergeAnswers :
       \E r \in {check_for_updates(Manga3, mem, <<a1, a2, a3>>, now)} :
           /\ ReconcileResult(r, <<a1, a2, a3>>)
           /\ op' = [name     |-> "check_for_updates",
                     listings |-> <<a1, a2, a3>>,
                     before   |-> mem,
                     at       |-> now]

NextMerge ==
    \/ RunTick
    \/ MergeCheck
    \/ CommitFetch
    \/ ClearAfterCommit
    \/ FetchFail
    \/ EndRun

SpecMerge == Init /\ [][NextMerge]_vars

\* The run that has just returned, with what it was called on.
MergeRan == op.name = "check_for_updates" /\ JustRan

\* C21: every Decision of a run carries a label whose ordinal key is above
\* the threshold read at the start of the call and that was not downloaded
\* then; a label with ordinal key 0.0 is never in a Decision.
C21_EmittedAboveThreshold ==
    MergeRan =>
        \A i \in 1..Len(run.chapters) :
            /\ ~ LastNumRaises(op.before, Title)
            /\ numericOf[run.chapters[i].number] > last_num(op.before, Title)
            /\ ~ is_chapter_downloaded(op.before, Title, run.chapters[i].number)
            /\ numericOf[run.chapters[i].number] # 0

\* A run on an empty store that was offered the label without digits next to
\* a numbered one, and emitted something.
C21_Witness ==
    /\ MergeRan
    /\ LExtra \in run.listed[1]
    /\ L2 \in run.listed[1]
    /\ run.chapters # <<>>

\* Source i listed l as new in the run that has just returned.
NewOn(i, l) == SeqHas(ListedNew(op.before, Title, op.listings, i), l)

\* C22: a fallback Decision for a label with a pending entry names the
\* backup stored in that entry when it was created, not the backup that
\* lists the chapter in the current run.
C22_FallbackFromStoredBackup ==
    MergeRan =>
        \A i \in 1..Len(run.chapters) :
            run.chapters[i].is_backup =>
                /\ run.chapters[i].number \in DOMAIN PendingIn(op.before)
                /\ run.chapters[i].source =
                       PendingIn(op.before)[run.chapters[i].number].backup_source

\* C23: a new label that several backups list in one run, and the primary
\* does not, is recorded (in the pending entry the run creates, or in the
\* fallback Decision it emits) with the lowest-ranked backup that lists it.
C23_FirstBackupWins ==
    MergeRan =>
        \A l \in AllLabels :
            (~ NewOn(1, l) /\ NewOn(2, l) /\ NewOn(3, l)) =>
                /\ (l \in DOMAIN Pending /\ l \notin DOMAIN PendingIn(op.before))
                       => Pending[l].backup_source = Manga3.sources[2]
                /\ \A i \in 1..Len(run.chapters) :
                       (run.chapters[i].number = l /\ run.chapters[i].is_backup)
                           => run.chapters[i].source = Manga3.sources[2]

\* C24: in the result of one run every label is in at most one Decision,
\* and a label the primary listed as new is emitted as a non-fallback
\* Decision only, and has no pending entry after the run, even when backups
\* list it too.
C24_PrimaryExcludesBackup ==
    MergeRan =>
        /\ \A i, j \in 1..Len(run.chapters) :
               i # j => run.chapters[i].number # run.chapters[j].number
        /\ \A l \in AllLabels :
               NewOn(1, l) =>
                   /\ \A i \in 1..Len(run.chapters) :
                          run.chapters[i].number = l => ~ run.chapters[i].is_backup
                   /\ l \notin DOMAIN Pending

\* A run in which the primary and a backup both list a label that had a
\* pending entry, next to another emitted label.
C24_Witness ==
    /\ MergeRan
    /\ Len(run.chapters) >= 2
    /\ \E l \in AllLabels :
           /\ NewOn(1, l)
           /\ NewOn(2, l)
           /\ l \in DOMAIN PendingIn(op.before)

\* What the store answers about the progress of the series.
ProgressIn(d) == <<get_downloaded_chapters(d, Title), get_last_chapter(d, Title)>>

\* C25: a run of check_for_updates leaves the downloaded list and the
\* last chapter of the series as they were, and the commit of a fetched
\* chapter is the only engine operation that changes them.
C25_OnlyCommitChangesProgress ==
    [][ /\ EngineRun => ProgressIn(mem') = ProgressIn(mem)
        /\ ProgressIn(mem') # ProgressIn(mem) => CommitFetch ]_vars

\* A run has just returned on a store with a committed chapter, and left a
\* pending entry.
C25_Witness ==
    /\ JustRan
    /\ run.status = "ok"
    /\ get_last_chapter(mem, Title) # None
    /\ DOMAIN Pending # {}
    /\ load(disk) = mem

\* The pending entry of l that the run found had waited out the delay.
ElapsedBefore(l) ==
    /\ l \in DOMAIN PendingIn(op.before)
    /\ DaysBetween(op.at, PendingIn(op.before)[l].first_seen)
           >= Manga3.fallback_delay_days

\* No backup listed l as new in the run (a failed listing lists nothing).
NoBackupLists(l) == \A i \in 2..Len(op.listings) : ~ NewOn(i, l)

\* The pending entry of l is as the run found it.
PendingKept(l) ==
    /\ l \in DOMAIN Pending
    /\ Pending[l] = PendingIn(op.before)[l]

\* C28: a fallback Decision is emitted only in a run in which some backup
\* lists the label as new; an elapsed pending entry gives no Decision in a
\* run where no backup lists the chapter, and the entry is left unchanged.
C28_NoListingNoDecision ==
    MergeRan =>
        \A l \in AllLabels :
            /\ EmittedFallback(l) => ~ NoBackupLists(l)
            /\ (ElapsedBefore(l) /\ NoBackupLists(l))
                   => (~ Emitted(l) /\ PendingKept(l))

\* C28, amended: the same, for a label the primary does not list as new in
\* that run either.
C28_NoListingNoFallback ==
    MergeRan =>
        \A l \in AllLabels :
            /\ EmittedFallback(l) => ~ NoBackupLists(l)
            /\ (ElapsedBefore(l) /\ NoBackupLists(l) /\ ~ NewOn(1, l))
                   => (~ Emitted(l) /\ PendingKept(l))

\* A run that found two elapsed pending entries: one listed by a backup and
\* emitted as a fallback, one that no source listed.
C28_Witness ==
    /\ MergeRan
    /\ \E l, k \in AllLabels :
           /\ ElapsedBefore(l)
           /\ NoBackupLists(l)
           /\ ~ NewOn(1, l)
           /\ op.listings[1].ok
           /\ ElapsedBefore(k)
           /\ EmittedFallback(k)

(***************************************************************************)
(* SpecTwo: two processes, each with its own State on the same state file  *)
(* (a scheduled check and a manual one).  Here mem holds the _data of each *)
(* handle; the calls are steps of their own, so they never overlap.  op    *)
(* remembers the commits that returned.                                    *)
(***************************************************************************)
Handles == {"A", "B"}
TwoTitles == {Title, "m2"}
TwoLabels == {L2, L3}

InitTwo ==
    /\ disk = NoFile
    /\ mem = [h \in Handles |-> load(disk)]
    /\ now = 0
    /\ run = NoRun
    /\ todo = <<>>
    /\ pc = "idle"
    /\ fetched = [l \in AllLabels |-> 0]
    /\ retry = {}
    /\ op = [name |-> "__init__", committed |-> {}]

\* A process starts: State() loads the file.
OpenHandle(h) ==
    /\ mem' = [mem EXCEPT ![h] = load(disk)]
    /\ op' = [op EXCEPT !.name = "__init__"]
    /\ UNCHANGED <<disk, now, run, todo, pc, fetched, retry>>

\* state.add_downloaded_chapter(t, ch) on handle h.
HandleAddDownloadedChapter(h, t, ch) ==
    \E o \in {add_downloaded_chapter(mem[h], t, ch)} :
        /\ mem' = [mem EXCEPT ![h] = o.data]
        /\ disk' = Saved(o)
        /\ op' = [name      |-> "add_downloaded_chapter",
                  committed |-> IF o.raised THEN op.committed
                                ELSE op.committed \cup {<<t, ch>>}]
        /\ UNCHANGED <<now, run, todo, pc, fetched, retry>>

NextTwo ==
    \/ \E h \in Handles : OpenHandle(h)
    \/ \E h \in Handles, t \in TwoTitles, ch \in TwoLabels :
           HandleAddDownloadedChapter(h, t, ch)

SpecTwo == InitTwo /\ [][NextTwo]_vars

\* C26: with two handles on one file and calls that do not overlap, no
\* persisted progress is lost: every chapter a handle has committed is in
\* the persisted store, whichever handle committed after it.
C26_NoCommitLost ==
    \A c \in op.committed : is_chapter_downloaded(load(disk), c[1], c[2])

(***************************************************************************)
(* SpecHistory: one `memanga check` after another.  Each process builds    *)
(* its State when cli.py is imported (cli.py:29), cmd_check calls          *)
(* update_last_check() before anything else (cli.py:316) and commits       *)
(* chapters afterwards.  op keeps every history entry ever appended and    *)
(* the series records as they were before the last call.                   *)
(***************************************************************************)
MaxHistoryCalls == 52
MaxHistoryTime == 1
HistoryLabels == {L2, L1x2x3}

InitHistory ==
    /\ disk = NoFile
    /\ mem = load(disk)
    /\ now = 0
    /\ run = NoRun
    /\ todo = <<>>
    /\ pc = "idle"
    /\ fetched = [l \in AllLabels |-> 0]
    /\ retry = {}
    /\ op = [name |-> "__init__", log |-> <<>>,
             before |-> mem.manga, persisted |-> load(disk).manga]

\* datetime.now() moves on.
HistoryTick ==
    /\ now < MaxHistoryTime
    /\ now' = now + 1
    /\ UNCHANGED <<mem, disk, run, todo, pc, fetched, retry, op>>

\* state = State()
StartProcess ==
    /\ op.name # "__init__"
    /\ mem' = load(disk)
    /\ op' = [op EXCEPT !.name = "__init__"]
    /\ UNCHANGED <<disk, now, run, todo, pc, fetched, retry>>

\* state.update_last_check()
CheckStarts ==
    /\ op.name = "__init__"
    /\ Len(op.log) < MaxHistoryCalls
    /\ \E o \in {update_last_check(mem, 0, 0, now)} :
           /\ mem' = o.data
           /\ disk' = Saved(o)
           /\ op' = [name      |-> "update_last_check",
                     log       |-> Append(op.log, [timestamp    |-> now,
                                                   new_chapters |-> 0,
                                                   downloaded   |-> 0]),
                     before    |-> mem.manga,
                     persisted |-> load(disk).manga]
    /\ UNCHANGED <<now, run, todo, pc, fetched, retry>>

\* state.add_downloaded_chapter(title, ch) later in the same cmd_check (one
\* chapter per check here)
CheckCommits(ch) ==
    /\ op.name = "update_last_check"
    /\ \E o \in {add_downloaded_chapter(mem, Title, ch)} :
           /\ mem' = o.data
           /\ disk' = Saved(o)
           /\ op' = [op EXCEPT !.name = "add_downloaded_chapter"]
    /\ UNCHANGED <<now, run, todo, pc, fetched, retry>>

NextHistory ==
    \/ HistoryTick
    \/ StartProcess
    \/ CheckStarts
    \/ \E ch \in HistoryLabels : CheckCommits(ch)

SpecHistory == InitHistory /\ [][NextHistory]_vars

\* C27: after any number of update_last_check calls the persisted
\* check_history holds at most 50 entries, they are the most recent ones in
\* call order, and the call changes no per-series record.
C27_HistoryKeepsLatest ==
    LET h == load(disk).check_history
        n == Len(op.log)
    IN  /\ Len(h) <= 50
        /\ Len(h) = IF n <= 50 THEN n ELSE 50
        /\ \A i \in 1..Len(h) : h[i] = op.log[n - Len(h) + i]
        /\ op.name = "update_last_check"
              => /\ mem.manga = op.before
                 /\ load(disk).manga = op.persisted

C27_Witness ==
    /\ op.name = "update_last_check"
    /\ Len(op.log) > HistoryKept
    /\ op.log[1].timestamp # op.log[Len(op.log)].timestamp
    /\ Title \in DOMAIN load(disk).manga

(***************************************************************************)
(* SpecDeliver: the chapter loop of cmd_check as written (cli.py:356-408), *)
(* with the delivery step, on the list a check_for_updates call returned.  *)
(* One step is one iteration.  op keeps, for the check in progress, the    *)
(* labels download_chapter returned for, those it raised DownloaderError   *)
(* for and those whose e-mail raised EmailError, and the labels that have  *)
(* a local file.                                                           *)
(***************************************************************************)
DeliverLabels == {L2, L10, L1x2x3}

\* How the delivery step ends: not configured; sent; sent and the local
\* copy deleted (delivery.delete_after_send); send_to_kindle raised
\* EmailError; smtplib.SMTP(host, port) raised an OSError (connection
\* refused, name not resolved), which _send_single_email does not catch.
MailOutcomes == {"off", "sent", "sent_deleted", "EmailError", "OSError"}

NoDelivery == [name |-> "cmd_check", returned |-> {}, failed |-> {},
               unsent |-> {}, files |-> {}]

InitDeliver ==
    /\ mem = default_state
    /\ disk = NoFile
    /\ now = 0
    /\ run = NoRun
    /\ todo = <<>>
    /\ pc = "idle"
    /\ fetched = [l \in AllLabels |-> 0]
    /\ retry = {}
    /\ op = NoDelivery

\* new_chapters = check_for_updates(manga, state)
DeliverRun ==
    /\ \E a1 \in Answers(DeliverLabels) : ReconcileCore(<<a1, Failed>>)
    /\ op' = [NoDelivery EXCEPT !.files = op.files]

\* download_chapter raised DownloaderError: the inner except, next chapter.
DownloadRaises ==
    /\ pc = "loop"
    /\ op' = [op EXCEPT !.failed = @ \cup {Head(todo).number}]
    /\ todo' = Tail(todo)
    /\ pc' = IF Tail(todo) = <<>> THEN "done" ELSE "loop"
    /\ UNCHANGED <<mem, disk, now, run, fetched, retry>>

\* download_chapter returned file_path; then the delivery step and the two
\* store calls.  An exception that is not a DownloaderError leaves the loop
\* for the outer `except Exception`.
DownloadReturns(mail) ==
    /\ pc = "loop"
    /\ \E l \in {Head(todo).number} :
       \E o \in {add_downloaded_chapter(mem, Title, l)} :
       \E o2 \in {clear_pending_backup(o.data, Title, l)} :
          /\ op' = [op EXCEPT
                      !.returned = @ \cup {l},
                      !.unsent = IF mail = "EmailError" THEN @ \cup {l} ELSE @,
                      !.files = IF mail = "sent_deleted" THEN @ \ {l}
                                ELSE @ \cup {l}]
          /\ IF mail = "OSError"
             THEN /\ pc' = "done"
                  /\ todo' = <<>>
                  /\ UNCHANGED <<mem, disk, fetched>>
             ELSE /\ fetched' = [fetched EXCEPT ![l] = Min(@ + 1, 2)]
                  /\ IF o.raised
                     THEN /\ mem' = o.data
                          /\ disk' = Saved(o)
                          /\ pc' = "done"
                          /\ todo' = <<>>
                     ELSE /\ mem' = o2.data
                          /\ disk' = IF o2.saved THEN o2.data ELSE Saved(o)
                          /\ todo' = Tail(todo)
                          /\ pc' = IF Tail(todo) = <<>> THEN "done" ELSE "loop"
    /\ UNCHANGED <<now, run, retry>>

NextDeliver ==
    \/ DeliverRun
    \/ DownloadRaises
    \/ \E mail \in MailOutcomes : DownloadReturns(mail)
    \/ EndCheck

SpecDeliver == InitDeliver /\ [][NextDeliver]_vars

MaxFilterChecks == 2

SeriesB == [Manga EXCEPT !.title = "m2"]
manga_list == <<Manga, SeriesB>>
FilterTitles == {Manga.title, SeriesB.title}

\* m["title"] as characters.
TitleChars(t) == IF t = Manga.title THEN <<"m", "1">> ELSE <<"m", "2">>

\* str.lower()
str_lower(s) == [i \in 1..Len(s) |-> IF s[i] = "M" THEN "m" ELSE s[i]]

\* a in b, for strings
str_in(a, b) ==
    \E i \in 0..(Len(b) - Len(a)) :
        \A j \in 1..Len(a) : b[i + j] = a[j]

\* `if args.title:` -- None and "" are false.
Truthy(title) == title # None /\ title # <<>>

\* The list without the title filter applied.
filter_ignored(list, title) == list

\* [m for m in manga_list if args.title.lower() in m["title"].lower()]
filter_by_title(list, title) ==
    IF Truthy(title)
    THEN SelectSeq(list, LAMBDA m :
             str_in(str_lower(title), str_lower(TitleChars(m.title))))
    ELSE list

\* The chapter loop with --auto when every download and delivery returns:
\* add_downloaded_chapter, clear_pending_backup; an exception of the store
\* call ends the series.
RECURSIVE download_all(_, _, _)
download_all(st, t, chs) ==
    IF chs = <<>> THEN st
    ELSE Bind(add_downloaded_chapter(st.data, t, Head(chs).number), LAMBDA o :
         IF o.raised THEN [st EXCEPT !.data = o.data]
         ELSE Bind(clear_pending_backup(o.data, t, Head(chs).number), LAMBDA o2 :
              download_all([st EXCEPT !.data = o2.data,
                                      !.file = IF o2.saved THEN o2.data
                                               ELSE IF o.saved THEN o.data
                                               ELSE st.file],
                           t, Tail(chs))))

\* One turn of `for manga in manga_list`.
check_series(st, manga, inp, clock) ==
    IF inp.status[manga.title] # "reading" /\ ~ Truthy(inp.title)
    THEN st
    ELSE Bind(check_for_updates(manga, st.data, inp.answers[manga.title], clock),
              LAMBDA r :
         Bind([data    |-> r.data,
               file    |-> IF r.data # st.data THEN r.data ELSE st.file,
               queried |-> st.queried \cup {manga.title}],
              LAMBDA st1 :
                  IF r.status = "ok" /\ inp.auto
                  THEN download_all(st1, manga.title, r.chapters)
                  ELSE st1))

RECURSIVE check_each(_, _, _, _)
check_each(st, list, inp, clock) ==
    IF list = <<>> THEN st
    ELSE Bind(check_series(st, Head(list), inp, clock), LAMBDA st1 :
              check_each(st1, Tail(list), inp, clock))

\* cmd_check(args)
cmd_check(d, file, inp, clock) ==
    Bind(filter_by_title(manga_list, inp.title), LAMBDA list :
        IF list = <<>>
        THEN [data |-> d, file |-> file, queried |-> {}]
        ELSE Bind(update_last_check(d, 0, 0, clock), LAMBDA o :
                  check_each([data |-> o.data, file |-> o.data, queried |-> {}],
                             list, inp, clock)))

FilterAnswers ==
    {<<Failed, Failed>>,
     <<[ok |-> TRUE, chapters |-> <<L2>>], Failed>>,
     <<Failed, [ok |-> TRUE, chapters |-> <<L2>>]>>}

\* What a run is given: --auto, the title argument, and what the
\* configuration and the sources hold at that time.
FilterInputs ==
    [auto    : BOOLEAN,
     title   : {None, <<>>, <<"m">>, <<"M", "1">>, <<"x">>},
     status  : [FilterTitles -> {"reading", "completed"}],
     answers : [FilterTitles -> FilterAnswers]]

InitFilter ==
    /\ mem = default_state
    /\ disk = NoFile
    /\ now = 0
    /\ run = NoRun
    /\ todo = <<>>
    /\ pc = "idle"
    /\ fetched = [l \in AllLabels |-> 0]
    /\ retry = {}
    /\ op = [name |-> "__init__"]

\* A new process runs `memanga check`.
CmdCheckAll ==
    /\ Len(load(disk).check_history) < MaxFilterChecks
    /\ \E inp \in FilterInputs :
       \E r \in {cmd_check(load(disk), disk, inp, now)} :
           /\ mem' = r.data
           /\ disk' = r.file
           /\ op' = [name |-> "cmd_check", title |-> inp.title,
                     status |-> inp.status, queried |-> r.queried,
                     changed |-> {t \in FilterTitles :
                         \/ get_manga_state(r.data, t) # get_manga_state(load(disk), t)
                         \/ get_manga_state(load(r.file), t)
                                # get_manga_state(load(disk), t)}]
    /\ UNCHANGED <<now, run, todo, pc, fetched, retry>>

\* Every run is at the same clock reading: no pending entry is old enough
\* for a fallback, which the skip and the filter do not depend on.
NextFilter == CmdCheckAll

SpecFilter == InitFilter /\ [][NextFilter]_vars

\* The title argument of the last run matches series t.
Matches(t) ==
    /\ Truthy(op.title)
    /\ str_in(str_lower(op.title), str_lower(TitleChars(t)))

\* C30: a check without a title filter leaves the store record of every
\* series whose status is not 'reading' unchanged and asks none of its
\* sources; such a series is reconciled only by a run whose title filter
\* matches it.
C30_NotReadingSkipped ==
    op.name = "cmd_check" =>
        \A t \in FilterTitles :
            op.status[t] # "reading" =>
                /\ ~ Truthy(op.title) => (t \notin op.queried /\ t \notin op.changed)
                /\ t \in op.queried => Matches(t)
                /\ ~ Matches(t) => t \notin op.changed

\* A run without a title that skipped a finished series holding a pending
\* entry while it changed the record of the series being read.
C30_Witness ==
    /\ op.name = "cmd_check"
    /\ ~ Truthy(op.title)
    /\ op.status[Manga.title] = "completed"
    /\ get_all_pending_backups(mem, Manga.title) # EmptyMap
    /\ op.status[SeriesB.title] = "reading"
    /\ SeriesB.title \in op.queried
    /\ SeriesB.title \in op.changed

\* A finished series reconciled by a run whose title matches it.
C30_TitledRun ==
    /\ op.name = "cmd_check"
    /\ op.status[Manga.title] = "completed"
    /\ Manga.title \in op.queried
    /\ Manga.title \in op.changed

=============================================================================
